---- MODULE Spec2Model ----
(***************************************************************************)
(* Model of mclub.py: the copy worker (CopyWorker.run), the file          *)
(* operations it calls (FileOperations) and the two controller slots that *)
(* talk to it (MainWindow.copy_files, MainWindow.cancel_copy).            *)
(*                                                                         *)
(* A path is a sequence of characters; a character is a natural number    *)
(* and Sep stands for the separator '/'.  The model follows posixpath.    *)
(***************************************************************************)
EXTENDS Integers, Sequences, FiniteSets, TLC

(* ---------------------------------------------------------------------- *)
(* Bounds                                                                  *)
(* ---------------------------------------------------------------------- *)
MaxSize == 1
MaxAge == 2
MaxSpace == 3
MaxEntries == 2
MaxJobs == 2
MaxPathLen == 5
MaxFlatten == 3

Sizes == 0..MaxSize
Ages == 1..MaxAge

(* ---------------------------------------------------------------------- *)
(* Paths                                                                   *)
(* ---------------------------------------------------------------------- *)
Sep == 0

\* the absolute path with the given names: "/" + name + "/" + name ...
Str(segs) ==
  LET RECURSIVE J(_)
      J(s) == IF s = <<>> THEN <<>> ELSE <<Sep>> \o Head(s) \o J(Tail(s))
  IN J(segs)

\* names used by the file tree of the model
NameA == <<1>>
NameB == <<2>>
NameC == <<3>>
NameX == <<4>>
NameOut == <<9>>

DirA == Str(<<NameA>>)
DirB == Str(<<NameA, NameB>>)
DirC == Str(<<NameA, NameC>>)
FileBX == Str(<<NameA, NameB, NameX>>)
FileCX == Str(<<NameA, NameC, NameX>>)
DestRoot == Str(<<NameOut>>)

\* the regular files of the source tree, and its directories
Files == {FileBX, FileCX}
Dirs == {DirA, DirB, DirC}

\* p is a proper prefix of q, on a separator boundary (q lies below directory p)
IsUnder(q, p) ==
  /\ Len(q) > Len(p) + 1
  /\ SubSeq(q, 1, Len(p)) = p
  /\ q[Len(p) + 1] = Sep

\* lexicographic order on strings, as Python compares str
RECURSIVE StrLess(_, _)
StrLess(p, q) ==
  IF q = <<>> THEN FALSE
  ELSE IF p = <<>> THEN TRUE
  ELSE IF Head(p) # Head(q) THEN Head(p) < Head(q)
  ELSE StrLess(Tail(p), Tail(q))

\* sorted(S): the elements of a set of strings in ascending order
RECURSIVE sorted(_)
sorted(S) ==
  IF S = {} THEN <<>>
  ELSE LET m == CHOOSE x \in S : \A y \in S \ {x} : StrLess(x, y)
       IN <<m>> \o sorted(S \ {m})

\* set(l): the elements of a list
set(l) == {l[i] : i \in 1..Len(l)}

\* str.rfind('/') + 1: the 1-based position of the last separator, 0 if none
RFind(p) ==
  LET I == {i \in 1..Len(p) : p[i] = Sep}
  IN IF I = {} THEN 0 ELSE CHOOSE i \in I : \A j \in I : j <= i

AllSep(p) == \A i \in 1..Len(p) : p[i] = Sep

\* str.rstrip('/')
RECURSIVE RStrip(_)
RStrip(p) ==
  IF p # <<>> /\ p[Len(p)] = Sep THEN RStrip(SubSeq(p, 1, Len(p) - 1)) ELSE p

\* posixpath.split(p): <<head, tail>>
PathSplit(p) ==
  LET i == RFind(p)
      head == SubSeq(p, 1, i)
      tail == SubSeq(p, i + 1, Len(p))
  IN <<IF head # <<>> /\ ~AllSep(head) THEN RStrip(head) ELSE head, tail>>

\* the while loop of split_path: folders is built by append and returned
\* reversed on both exits, so the model prepends
RECURSIVE SplitLoop(_, _)
SplitLoop(path, folders) ==
  LET s == PathSplit(path)
      p == s[1]
      folder == s[2]
  IN IF folder # <<>>
     THEN IF Len(p) = 0 THEN <<folder>> \o folders
          ELSE SplitLoop(p, <<folder>> \o folders)
     ELSE IF p # <<>> THEN <<p>> \o folders ELSE folders

\* split_path(path): os.path.splitdrive(path)[1] is path itself on posix,
\* and [1:] drops its first character
split_path(path) ==
  SplitLoop(IF path = <<>> THEN <<>> ELSE Tail(path), <<>>)

\* posixpath.join(a, b)
PathJoin(a, b) ==
  IF b # <<>> /\ b[1] = Sep THEN b
  ELSE IF a = <<>> \/ a[Len(a)] = Sep THEN a \o b
  ELSE a \o <<Sep>> \o b

RECURSIVE JoinAll(_, _)
JoinAll(a, segs) ==
  IF segs = <<>> THEN a ELSE JoinAll(PathJoin(a, Head(segs)), Tail(segs))

\* the components of a string between separators, empty ones dropped
RECURSIVE Comps(_, _)
Comps(p, cur) ==
  IF p = <<>> THEN (IF cur = <<>> THEN <<>> ELSE <<cur>>)
  ELSE IF Head(p) = Sep
       THEN (IF cur = <<>> THEN <<>> ELSE <<cur>>) \o Comps(Tail(p), <<>>)
       ELSE Comps(Tail(p), Append(cur, Head(p)))

\* os.path.abspath of an absolute path: posixpath.normpath.  The alphabet of
\* the model has no '.', so no component is '.' or '..'; exactly two leading
\* separators are kept, any other number collapses to one
abspath(p) ==
  LET comps == Comps(p, <<>>)
      two == Len(p) >= 2 /\ p[1] = Sep /\ p[2] = Sep /\ (Len(p) = 2 \/ p[3] # Sep)
      body == IF comps = <<>> THEN <<>> ELSE Tail(Str(comps))
  IN (IF two THEN <<Sep, Sep>> ELSE <<Sep>>) \o body

\* the value standing for the IndexError raised by fp[-1] on an empty list
IndexError == <<-1>>

\* get_dest_filepath(filepath, destpath, flattencount)
get_dest_filepath(filepath, destpath, flattencount) ==
  LET fp == split_path(filepath)
  IN IF flattencount > 0
     THEN IF Len(fp) > flattencount
          THEN abspath(JoinAll(destpath, SubSeq(fp, flattencount + 1, Len(fp))))
          ELSE IF fp = <<>> THEN IndexError
               ELSE abspath(PathJoin(destpath, fp[Len(fp)]))
     ELSE abspath(JoinAll(destpath, fp))

(* ---------------------------------------------------------------------- *)
(* FileOperations: scan and overwrite decision                             *)
(* ---------------------------------------------------------------------- *)

\* get_file_list_for_dir(filepath): the list appended to self.filelist.  A
\* regular file is listed itself; anything else is walked, and os.walk of a
\* path that is no directory yields nothing
get_file_list_for_dir(filepath) ==
  IF filepath \in Files THEN <<filepath>>
  ELSE sorted({f \in Files : IsUnder(f, filepath)})

\* the sum of stat(f).st_size over a list of files (get_file_size, ret=False);
\* st gives the size stat reports for each file during the scan
RECURSIVE SumSizes(_, _)
SumSizes(l, st) ==
  IF l = <<>> THEN 0 ELSE st[Head(l)] + SumSizes(Tail(l), st)

\* lines 197-202 of CopyWorker.run: the concatenated file list of all entries
RECURSIVE ScanList(_)
ScanList(pathlist) ==
  IF pathlist = <<>> THEN <<>>
  ELSE get_file_list_for_dir(Head(pathlist)) \o ScanList(Tail(pathlist))

\* lines 194-202 of CopyWorker.run: the totals of the scan of all entries,
\* given the size stat reports for each file
ScanTotals(pathlist, st) ==
  [filelist |-> ScanList(pathlist),
   filecount |-> Len(ScanList(pathlist)),
   filesize |-> SumSizes(ScanList(pathlist), st)]

copy_file_flag_ge(overwrite, exists, source_filesize, source_fileage, dest_filesize, dest_fileage) ==
  IF exists
  THEN IF overwrite = "larger"
       THEN (IF source_filesize >= dest_filesize THEN "True" ELSE "Unbound")
       ELSE IF overwrite = "newer"
       THEN (IF source_fileage > dest_fileage THEN "True" ELSE "Unbound")
       ELSE IF overwrite = "either" THEN "True"
       ELSE "False"
  ELSE "True"

\* copy_file_flag after lines 145-159 of copy_file_to_dest: "True", "False",
\* or "Unbound" when no branch assigned the local
copy_file_flag(overwrite, exists, source_filesize, source_fileage, dest_filesize, dest_fileage) ==
  IF exists
  THEN IF overwrite = "larger"
       THEN (IF source_filesize > dest_filesize THEN "True" ELSE "Unbound")
       ELSE IF overwrite = "newer"
       THEN (IF source_fileage > dest_fileage THEN "True" ELSE "Unbound")
       ELSE IF overwrite = "either" THEN "True"
       ELSE "False"
  ELSE "True"

\* line 203: the capacity test
HasSpace_le(fsize, available) == fsize <= available
HasSpace(fsize, available) == fsize < available

\* line 211: int((float(copied) / float(total)) * 100), for total > 0.  For
\* the totals of this model (below 10) the float expression equals the
\* integer quotient
Percent(copied, total) == (copied * 100) \div total

\* every directory on the way to d, d included (what os.makedirs creates)
Ancestors(d) ==
  {SubSeq(d, 1, i) : i \in {j \in 1..Len(d) : j = Len(d) \/ d[j + 1] = Sep}}

(* ---------------------------------------------------------------------- *)
(* State                                                                   *)
(* ---------------------------------------------------------------------- *)
VARIABLES
  ui,               \* the widgets copy_files reads: destination, selection, trim count, overwrite choice
  dest,             \* destination tree: path of an existing file -> [size, age]
  destdirs,         \* existing directories of the destination tree
  socket,           \* messages sent on the PAIR socket and not yet received
  must_run,         \* CopyWorker.must_run
  jobs,             \* number of messages sent by copy_files so far
  pc,               \* position of the worker thread
  job,              \* paramdict of the current run
  available_space, filecount, filesize, filelist,   \* locals of run
  todo,             \* what is left of sorted(set(filelist)), current file first
  filecopy,         \* the FileOperations object of the copy loop: [filesize, filecount]
  progress_percent,
  destfilepath,     \* local of run: destination of the current file
  source_filesize, source_fileage,   \* locals of copy_file_to_dest
  events,           \* signals emitted by the current run, in order
  error,            \* the exception that ended the run, "none" if none
  starter,          \* number of the copy_files call whose start() began the current run
  cancelReq,        \* cancel_copy was called while the current run was active
  log,              \* per file handled by copy_file_to_dest in this run: what happened
  arg, res          \* argument and result of a function applied on its own (SpecScan, SpecPath)

vars == <<ui, dest, destdirs, socket, must_run, jobs, pc, job,
          available_space, filecount, filesize, filelist, todo, filecopy,
          progress_percent, destfilepath, source_filesize, source_fileage,
          events, error, starter, cancelReq, log, arg, res>>

fsvars == <<dest, destdirs>>
locals == <<job, available_space, filecount, filesize, filelist, todo, filecopy,
            progress_percent, destfilepath, source_filesize, source_fileage>>
ghost == <<starter, cancelReq, log>>

Selectable == {DirA, FileCX}
FlattenCounts == {0, 2}
Overwrites == {"None", "larger", "newer", "either"}

SeqsUpTo(S, n) == UNION {[1..k -> S] : k \in 0..n}

\* the thread is not running: never started, or run has returned or raised
Stopped == {"idle", "completed", "insufficient", "cancelled", "failed"}
Running == pc \notin Stopped

NoJob == [id |-> 0, filelist |-> <<>>, destdir |-> <<>>, flattencount |-> 0, overwrite_opt |-> "None"]

\* no function is being applied on its own
NoArg == <<>>

\* the window and the worker right after MainWindow.__init__, the destination
\* tree empty
Idle ==
  /\ dest = <<>>
  /\ destdirs = {<<Sep>>, DestRoot}
  /\ socket = <<>>
  /\ must_run = TRUE
  /\ jobs = 0
  /\ pc = "idle"
  /\ job = NoJob
  /\ available_space = 0
  /\ filecount = 0
  /\ filesize = 0
  /\ filelist = <<>>
  /\ todo = <<>>
  /\ filecopy = [filesize |-> 0, filecount |-> 0]
  /\ progress_percent = 0
  /\ destfilepath = <<>>
  /\ source_filesize = 0
  /\ source_fileage = 0
  /\ events = <<>>
  /\ error = "none"
  /\ starter = 0
  /\ cancelReq = FALSE
  /\ log = <<>>

Init ==
  /\ ui \in [destdir : {<<>>, DestRoot}, filelist : SeqsUpTo(Selectable, MaxEntries),
             flattencount : FlattenCounts, overwrite : Overwrites \cup {"missing"}]
  /\ arg = NoArg
  /\ res = NoArg
  /\ Idle

(* ---------------------------------------------------------------------- *)
(* Controller: MainWindow                                                  *)
(* ---------------------------------------------------------------------- *)

\* QThread.start() at line 406: starts run unless the thread is running
Start ==
  IF Running
  THEN UNCHANGED <<pc, locals, events, error, starter, cancelReq, log>>
  ELSE /\ pc' = "recv"
       /\ job' = NoJob
       /\ available_space' = 0
       /\ filecount' = 0
       /\ filesize' = 0
       /\ filelist' = <<>>
       /\ todo' = <<>>
       /\ filecopy' = [filesize |-> 0, filecount |-> 0]
       /\ progress_percent' = 0
       /\ destfilepath' = <<>>
       /\ source_filesize' = 0
       /\ source_fileage' = 0
       /\ events' = <<>>
       /\ error' = "none"
       /\ starter' = jobs + 1
       /\ cancelReq' = FALSE
       /\ log' = <<>>

\* copy_files, reached from copyButton and from actionStart_Copy
copy_files ==
  /\ must_run' = TRUE
  /\ UNCHANGED <<ui, arg, res, fsvars>>
  /\ IF ui.destdir = <<>> \/ ui.overwrite = "missing"
     THEN UNCHANGED <<socket, jobs, pc, locals, events, error, ghost>>
     ELSE /\ jobs < MaxJobs
          /\ socket' = Append(socket, [id |-> jobs + 1, filelist |-> ui.filelist,
                                      destdir |-> ui.destdir,
                                      flattencount |-> ui.flattencount,
                                      overwrite_opt |-> ui.overwrite])
          /\ jobs' = jobs + 1
          /\ Start

cancel_copy_toggle ==
  /\ jobs > 0
  /\ must_run' = ~must_run
  /\ cancelReq' = (cancelReq \/ Running)
  /\ UNCHANGED <<ui, arg, res, fsvars, socket, jobs, pc, locals, events, error, starter, log>>

\* cancel_copy, the slot of the progress dialog's canceled signal; a dialog
\* exists once copy_files has reached line 401
cancel_copy ==
  /\ jobs > 0
  /\ must_run' = FALSE
  /\ cancelReq' = (cancelReq \/ Running)
  /\ UNCHANGED <<ui, arg, res, fsvars, socket, jobs, pc, locals, events, error, starter, log>>

(* ---------------------------------------------------------------------- *)
(* Worker: CopyWorker.run                                                  *)
(* ---------------------------------------------------------------------- *)

\* the signals, fields named by argument position
CopyProgress(percent, done, total) ==
  [sig |-> "copyProgress", percentComplete |-> percent, filesCompleted |-> done, filesTotal |-> total]
SpaceProblem(required, available) ==
  [sig |-> "spaceProblem", requiredBytes |-> required, availableBytes |-> available]
\* the second argument is filesize in bytes, before line 226 rescales it to GB
CopyComplete(count, bytes) ==
  [sig |-> "copyComplete", filesCopiedCount |-> count, totalBytesCopied |-> bytes]

\* the value standing for the OSError of os.statvfs on a missing path
StatError == -1

\* lines 186-191: recv blocks until a message is there; json.loads(json.dumps(d))
\* gives back the same fields
Recv ==
  /\ pc = "recv"
  /\ socket # <<>>
  /\ job' = Head(socket)
  /\ socket' = Tail(socket)
  /\ pc' = "scan"
  /\ UNCHANGED <<ui, arg, res, fsvars, must_run, jobs, available_space, filecount, filesize,
                 filelist, todo, filecopy, progress_percent, destfilepath,
                 source_filesize, source_fileage, events, error, ghost>>

\* what get_free_space(folder) can give: any number of bytes or the OSError of
\* os.statvfs, and only the error for the empty path
FreeSpace(folder) ==
  IF folder = <<>> THEN {StatError} ELSE (0..MaxSpace) \cup {StatError}

\* lines 192-202: free space of the destination, then the scan of every entry;
\* stat reports any size for a source file
Scan ==
  /\ pc = "scan"
  /\ \E space \in FreeSpace(job.destdir), st \in [Files -> Sizes] :
       IF space = StatError
       THEN /\ pc' = "failed"
            /\ error' = "OSError"
            /\ UNCHANGED <<available_space, filecount, filesize, filelist>>
       ELSE /\ available_space' = space
            /\ filelist' = ScanTotals(job.filelist, st).filelist
            /\ filecount' = ScanTotals(job.filelist, st).filecount
            /\ filesize' = ScanTotals(job.filelist, st).filesize
            /\ pc' = "capacity"
            /\ UNCHANGED error
  /\ UNCHANGED <<ui, arg, res, fsvars, socket, must_run, jobs, job, todo, filecopy,
                 progress_percent, destfilepath, source_filesize, source_fileage,
                 events, ghost>>

\* line 222: the return that ends the run after the spaceProblem signal
AfterSpaceProblem_fallthrough == "check"
AfterSpaceProblem == "insufficient"

\* lines 203-207 and 220-222
CapacityCheck ==
  /\ pc = "capacity"
  /\ IF HasSpace(filesize, available_space)
     THEN /\ events' = Append(events, CopyProgress(0, 0, filecount))
          /\ filecopy' = [filesize |-> 0, filecount |-> 0]
          /\ todo' = sorted(set(filelist))
          /\ pc' = "check"
     ELSE /\ events' = Append(events, SpaceProblem(filesize, available_space))
          /\ pc' = AfterSpaceProblem
          /\ UNCHANGED <<filecopy, todo>>
  /\ UNCHANGED <<ui, arg, res, fsvars, socket, must_run, jobs, job, available_space, filecount,
                 filesize, filelist, progress_percent, destfilepath, source_filesize,
                 source_fileage, error, ghost>>

\* lines 217-219: where the run goes when the flag is found cleared at line 208
OnCancel_ignore == "copy"
OnCancel == "cancelled"

\* lines 207-208 and 217-219: the next file of the loop, and the cancel test
LoopCheck ==
  /\ pc = "check"
  /\ todo # <<>>
  /\ pc' = IF must_run THEN "copy" ELSE OnCancel
  /\ UNCHANGED <<ui, arg, res, fsvars, socket, must_run, jobs, locals, events, error, ghost>>

\* lines 209 and 143-144: the destination path, then stat of the source file.
\* The source tree belongs to the environment: stat reports any size and age
StatSource ==
  /\ pc = "copy"
  /\ IF get_dest_filepath(Head(todo), job.destdir, job.flattencount) = IndexError
     THEN /\ pc' = "failed"
          /\ error' = "IndexError"
          /\ UNCHANGED <<destfilepath, source_filesize, source_fileage>>
     ELSE /\ destfilepath' = get_dest_filepath(Head(todo), job.destdir, job.flattencount)
          /\ \E ssize \in Sizes, sage \in Ages :
               /\ source_filesize' = ssize
               /\ source_fileage' = sage
          /\ pc' = "decide"
          /\ UNCHANGED error
  /\ UNCHANGED <<ui, arg, res, fsvars, socket, must_run, jobs, job, available_space, filecount,
                 filesize, filelist, todo, filecopy, progress_percent, events, ghost>>

\* lines 145-173 of copy_file_to_dest, given the outcome of os.makedirs and
\* shutil.copy2: [raised, existed, attempted, copied, dest, destdirs, filecopy].
\* A destination that is a directory is not reached by the trees of this model
copy_file_to_dest(fc, ssize, sage, destination, overwrite, d, dd, mkOk, cpOk) ==
  LET exists == destination \in DOMAIN d \/ destination \in dd
      isfile == destination \in DOMAIN d
      dest_filesize == IF isfile THEN d[destination].size ELSE 0
      dest_fileage == IF isfile THEN d[destination].age ELSE 0
      flag == copy_file_flag(overwrite, exists, ssize, sage, dest_filesize, dest_fileage)
      destdir == PathSplit(destination)[1]
      dd2 == IF destdir \notin dd /\ mkOk THEN dd \cup Ancestors(destdir) ELSE dd
      copied == flag = "True" /\ cpOk /\ destdir \in dd2 /\ destination \notin dd
  IN [raised |-> flag = "Unbound",
      existed |-> exists,
      attempted |-> flag = "True",
      copied |-> copied,
      dest |-> IF copied THEN (destination :> [size |-> ssize, age |-> sage]) @@ d ELSE d,
      destdirs |-> IF flag = "True" THEN dd2 ELSE dd,
      filecopy |-> IF copied
                   THEN [filesize |-> fc.filesize + ssize, filecount |-> fc.filecount + 1]
                   ELSE fc]

\* lines 145-173 and 211-213: copy_file_to_dest, then the percentage
CopyFile ==
  /\ pc = "decide"
  /\ \E mkOk \in BOOLEAN, cpOk \in BOOLEAN :
       LET r == copy_file_to_dest(filecopy, source_filesize, source_fileage, destfilepath,
                                  job.overwrite_opt, dest, destdirs, mkOk, cpOk)
       IN /\ dest' = r.dest
          /\ destdirs' = r.destdirs
          /\ filecopy' = r.filecopy
          /\ log' = Append(log, [file |-> Head(todo), destination |-> destfilepath,
                                 existed |-> r.existed, attempted |-> r.attempted,
                                 copied |-> r.copied,
                                 bytes |-> IF r.copied THEN source_filesize ELSE 0])
          /\ IF r.raised
             THEN /\ pc' = "failed"
                  /\ error' = "UnboundLocalError"
                  /\ UNCHANGED progress_percent
             ELSE IF filesize = 0
             THEN /\ pc' = "failed"
                  /\ error' = "ZeroDivisionError"
                  /\ UNCHANGED progress_percent
             ELSE /\ progress_percent' = Percent(r.filecopy.filesize, filesize)
                  /\ pc' = "emit"
                  /\ UNCHANGED error
  /\ destfilepath' = <<>>
  /\ source_filesize' = 0
  /\ source_fileage' = 0
  /\ UNCHANGED <<ui, arg, res, socket, must_run, jobs, job, available_space, filecount,
                 filesize, filelist, todo, events, starter, cancelReq>>

\* lines 214-216: the progress signal, unless the flag was cleared meanwhile
EmitProgress ==
  /\ pc = "emit"
  /\ events' = IF must_run
               THEN Append(events, CopyProgress(progress_percent, filecopy.filecount, filecount))
               ELSE events
  /\ todo' = Tail(todo)
  /\ pc' = "check"
  /\ UNCHANGED <<ui, arg, res, fsvars, socket, must_run, jobs, job, available_space, filecount,
                 filesize, filelist, filecopy, progress_percent, destfilepath,
                 source_filesize, source_fileage, error, ghost>>

\* lines 223-228: the loop is exhausted
Complete ==
  /\ pc = "check"
  /\ todo = <<>>
  /\ events' = Append(events, CopyComplete(filecount, filesize))
  /\ pc' = "completed"
  /\ UNCHANGED <<ui, arg, res, fsvars, socket, must_run, jobs, locals, error, ghost>>

Next ==
  \/ copy_files
  \/ cancel_copy
  \/ Recv
  \/ Scan
  \/ CapacityCheck
  \/ LoopCheck
  \/ StatSource
  \/ CopyFile
  \/ EmitProgress
  \/ Complete

Spec == Init /\ [][Next]_vars

(* ---------------------------------------------------------------------- *)
(* The worker on its own                                                   *)
(* ---------------------------------------------------------------------- *)

\* a window in which nothing was selected
NoUi == [destdir |-> <<>>, filelist |-> <<>>, flattencount |-> 0, overwrite |-> "None"]

\* what json.loads can hand to run: the fields copy_files sends, with any
\* overwrite value and any destination, the empty one included
JobSpecs ==
  [id : {1}, filelist : SeqsUpTo(Selectable, MaxEntries), destdir : {<<>>, DestRoot},
   flattencount : FlattenCounts, overwrite_opt : Overwrites \cup {"bogus"}]

\* the thread was started and one message waits on the socket
InitEngine ==
  /\ ui = NoUi
  /\ arg = NoArg
  /\ res = NoArg
  /\ dest = <<>>
  /\ destdirs = {<<Sep>>, DestRoot}
  /\ socket \in {<<m>> : m \in JobSpecs}
  /\ must_run = TRUE
  /\ jobs = 1
  /\ pc = "recv"
  /\ job = NoJob
  /\ available_space = 0
  /\ filecount = 0
  /\ filesize = 0
  /\ filelist = <<>>
  /\ todo = <<>>
  /\ filecopy = [filesize |-> 0, filecount |-> 0]
  /\ progress_percent = 0
  /\ destfilepath = <<>>
  /\ source_filesize = 0
  /\ source_fileage = 0
  /\ events = <<>>
  /\ error = "none"
  /\ starter = 1
  /\ cancelReq = FALSE
  /\ log = <<>>

NextEngine ==
  \/ Recv
  \/ Scan
  \/ CapacityCheck
  \/ LoopCheck
  \/ StatSource
  \/ CopyFile
  \/ EmitProgress
  \/ Complete

SpecEngine == InitEngine /\ [][NextEngine]_vars

(* ---------------------------------------------------------------------- *)
(* Functions applied on their own                                          *)
(* ---------------------------------------------------------------------- *)

\* everything but arg and res
progvars == <<ui, dest, destdirs, socket, must_run, jobs, pc, job, available_space,
              filecount, filesize, filelist, todo, filecopy, progress_percent,
              destfilepath, source_filesize, source_fileage, events, error,
              starter, cancelReq, log>>

\* the scan of lines 194-202 on any list of entries of the source tree
InitScan ==
  /\ arg \in [pathlist : SeqsUpTo(Files \cup Dirs, MaxEntries), st : [Files -> Sizes]]
  /\ res = NoArg
  /\ ui = NoUi
  /\ Idle

ApplyScan ==
  /\ pc = "idle"
  /\ res' = ScanTotals(arg.pathlist, arg.st)
  /\ pc' = "applied"
  /\ UNCHANGED <<arg, ui, dest, destdirs, socket, must_run, jobs, job, available_space,
                 filecount, filesize, filelist, todo, filecopy, progress_percent,
                 destfilepath, source_filesize, source_fileage, events, error,
                 starter, cancelReq, log>>

SpecScan == InitScan /\ [][ApplyScan]_vars

\* the absolute path strings over the separator and two name characters, and
\* the empty string
PathStrings ==
  {<<>>} \cup {p \in SeqsUpTo({Sep, 1, 2}, MaxPathLen) : p # <<>> /\ p[1] = Sep}

\* get_dest_filepath on any path string, root and trim count
InitPath ==
  /\ arg \in [filepath : PathStrings, destpath : {<<Sep>>, DestRoot},
              flattencount : (-1)..MaxFlatten]
  /\ res = NoArg
  /\ ui = NoUi
  /\ Idle

ApplyPath ==
  /\ pc = "idle"
  /\ res' = get_dest_filepath(arg.filepath, arg.destpath, arg.flattencount)
  /\ pc' = "applied"
  /\ UNCHANGED <<arg, ui, dest, destdirs, socket, must_run, jobs, job, available_space,
                 filecount, filesize, filelist, todo, filecopy, progress_percent,
                 destfilepath, source_filesize, source_fileage, events, error,
                 starter, cancelReq, log>>

SpecPath == InitPath /\ [][ApplyPath]_vars

(* ---------------------------------------------------------------------- *)
(* Properties                                                              *)
(* ---------------------------------------------------------------------- *)

Terminal(e) == e.sig \in {"copyComplete", "spaceProblem"}
InLoop == pc \in {"check", "copy", "decide", "emit", "completed", "cancelled"}
          \/ (pc = "failed" /\ error # "OSError")

\* the copyProgress events of a list of events, in order
RECURSIVE ProgressOf(_)
ProgressOf(ev) ==
  IF ev = <<>> THEN <<>>
  ELSE (IF Head(ev).sig = "copyProgress" THEN <<Head(ev)>> ELSE <<>>) \o ProgressOf(Tail(ev))

\* number of files written by the run, and their bytes
CopiedCount == Cardinality({i \in 1..Len(log) : log[i].copied})
RECURSIVE SumBytes(_)
SumBytes(l) == IF l = <<>> THEN 0 ELSE Head(l).bytes + SumBytes(Tail(l))

C2_CopyDecision ==
  [][(pc = "decide" /\ Len(log') = Len(log) + 1) =>
       LET e == log'[Len(log')]
           ex == destfilepath \in DOMAIN dest
           ow == job.overwrite_opt
       IN /\ e.attempted <=>
               \/ ~ex
               \/ ow = "either"
               \/ (ow = "larger" /\ source_filesize > dest[destfilepath].size)
               \/ (ow = "newer" /\ source_fileage > dest[destfilepath].age)
          /\ (ex /\ ow = "None") => (~e.copied /\ dest' = dest)]_vars

C2_Witness ==
  /\ job.overwrite_opt = "larger"
  /\ \E i \in 1..Len(log) : log[i].existed /\ log[i].attempted
  /\ pc = "emit"

\* C3: with an existing destination and a false overwrite condition (larger
\* with source not larger, newer with source not later) the file is skipped
\* without an error, the counters stay, and the loop goes on.
C3_SkipWithoutError ==
  [][(/\ pc = "decide"
      /\ pc' # "decide"
      /\ destfilepath \in DOMAIN dest
      /\ \/ (job.overwrite_opt = "larger" /\ source_filesize <= dest[destfilepath].size)
         \/ (job.overwrite_opt = "newer" /\ source_fileage <= dest[destfilepath].age))
       => (pc' = "emit" /\ error' = "none" /\ filecopy' = filecopy)]_vars

\* C4: in a run that ends Completed the filesCompleted values of the
\* copyProgress events go up by exactly 1 from event to event and end at the
\* number of distinct scanned files.
C4_ProgressByOne ==
  pc = "completed" =>
    LET P == ProgressOf(events)
    IN /\ \A i \in 1..(Len(P) - 1) : P[i + 1].filesCompleted = P[i].filesCompleted + 1
       /\ P # <<>>
       /\ P[Len(P)].filesCompleted = Cardinality(set(filelist))

\* C5: the events of one run are copyProgress events followed by at most one
\* terminal event, which is the last event of the run.
C5_EventOrder ==
  /\ \A i \in 1..(Len(events) - 1) : events[i].sig = "copyProgress"
  /\ (events # <<>> /\ Terminal(events[Len(events)])) => pc \in Stopped

C5_Witness ==
  /\ pc = "completed"
  /\ Len(events) >= 4
  /\ events[Len(events)].sig = "copyComplete"

\* C6: a run that has stopped has delivered exactly one terminal event.
C6_OneTerminalEvent ==
  pc \in (Stopped \ {"idle"}) =>
    Cardinality({i \in 1..Len(events) : Terminal(events[i]) \/ events[i].sig = "cancelled"}) = 1

\* C7: when the flag is found cleared at the first file boundary of a run with
\* files and enough space, the run ends Cancelled having handled no file and
\* emits no copyComplete.
C7_CancelBeforeFirstFile ==
  [][/\ (/\ pc = "check"
         /\ todo # <<>>
         /\ todo = sorted(set(filelist))
         /\ ~must_run
         /\ pc' # pc)
          => (pc' = "cancelled" /\ log' = <<>> /\ dest' = dest)
     /\ (pc = "cancelled" /\ pc' = "cancelled")
          => (events' = events /\ log' = log /\ dest' = dest)
     /\ pc' = "cancelled"
          => \A i \in 1..Len(events') : events'[i].sig # "copyComplete"]_vars

C7_Witness ==
  /\ pc = "cancelled"
  /\ filelist # <<>>
  /\ log = <<>>
  /\ events = <<CopyProgress(0, 0, filecount)>>

\* C8: once cancel_copy has been called during a run, the run starts no
\* further file: the next boundary test ends it.
C8_CancelHonoured ==
  [][(cancelReq /\ pc = "check" /\ todo # <<>> /\ pc' # pc) => pc' = "cancelled"]_vars

\* C9: while the worker is running, copy_files changes nothing: the flag is not
\* set again and no message is queued.
C9_StartRejectedWhileRunning ==
  [][Running => (Len(socket') <= Len(socket) /\ (must_run' => must_run))]_vars

\* C10: copyComplete carries the number of files written by the run and the
\* sum of their sizes.
C10_CompletionTotals ==
  pc = "completed" =>
    LET e == events[Len(events)]
    IN /\ e.sig = "copyComplete"
       /\ e.filesCopiedCount = CopiedCount
       /\ e.totalBytesCopied = SumBytes(log)

\* C11: the scan totals count every distinct file once: totalCount is the
\* number of distinct paths and totalBytes the sum of their sizes, also when a
\* file is reachable through two entries.
C11_ScanTotalsDistinct ==
  pc = "applied" =>
    /\ res.filecount = Cardinality(set(res.filelist))
    /\ res.filesize = SumSizes(sorted(set(res.filelist)), arg.st)

\* the files handled by the copy loop so far are distinct scanned files, in
\* ascending order of path
LogAscending ==
  /\ \A i \in 1..Len(log) : log[i].file \in set(filelist)
  /\ \A i \in 1..Len(log), j \in 1..Len(log) : i < j => StrLess(log[i].file, log[j].file)

\* C12: the copy loop handles each distinct scanned file at most once, in
\* ascending order of path, whatever the order and multiplicity of the entries,
\* and a run that entered the loop and was not cancelled handles every one.
C12_SortedExactlyOnce ==
  /\ LogAscending
  /\ (pc \in {"completed", "failed"} /\ error # "OSError") =>
       {log[i].file : i \in 1..Len(log)} = set(filelist)

\* the segments of a path string: its non-empty components
Segments(p) == Comps(p, <<>>)

\* C13: for a source path of n >= 1 segments the destination is the root
\* followed by all segments when the trim count is <= 0, by the segments after
\* the first trim count ones when it is below n, and by the last segment alone
\* when it is n or more.
C13_FlattenedDestination ==
  (pc = "applied" /\ Segments(arg.filepath) # <<>>) =>
    LET segs == Segments(arg.filepath)
        n == Len(segs)
        k == arg.flattencount
        kept == IF k <= 0 THEN segs
                ELSE IF k < n THEN SubSeq(segs, k + 1, n)
                ELSE <<segs[n]>>
    IN res = Str(Segments(arg.destpath) \o kept)

\* C14: get_dest_filepath returns a path for every source path and trim count,
\* a source path of zero segments included.
C14_DestinationTotal ==
  pc = "applied" => res # IndexError

\* C15: a failed directory creation or a failed copy of one file leaves the
\* counters as they were and the loop goes on to the progress signal and the
\* next file; it never ends the run.
C15_CopyFailureNonFatal ==
  [][(/\ pc = "decide"
      /\ Len(log') = Len(log) + 1
      /\ log'[Len(log')].attempted
      /\ ~log'[Len(log')].copied)
       => (filecopy' = filecopy /\ pc' = "emit" /\ error' = "none")]_vars

\* C16: a run whose scan total is zero bytes and that found free space ends
\* Completed unless cancelled: the percentage never divides by zero.  (The 100
\* is what copy_complete sets on copyComplete.)
C16_ZeroBytesCompletes ==
  /\ error # "ZeroDivisionError"
  /\ (filesize = 0 /\ InLoop /\ pc \in Stopped /\ pc # "cancelled") => pc = "completed"

\* C17: a failing free-space query never ends the run without a terminal
\* event: the run goes on with 0 available bytes to spaceProblem.
C17_SpaceQueryFailure ==
  /\ error # "OSError"
  /\ pc = "failed" => (events # <<>> /\ Terminal(events[Len(events)]))

C19_CancelIdempotent ==
  [][/\ (pc \in Stopped /\ pc' = "recv") => must_run'
     /\ pc' = "cancelled" => cancelReq'
     /\ (~must_run /\ must_run') => (jobs' = jobs + 1 \/ ~Running)]_vars

C19_Witness ==
  /\ pc = "completed"
  /\ ~must_run
  /\ ~cancelReq
  /\ jobs < MaxJobs

\* C20: in the copy loop the copied count stays within the number of distinct
\* scanned files and the copied bytes within the scan total, so every emitted
\* percentage lies in 0..100 and the percentages never go down.
C20_CountersBounded ==
  LET P == ProgressOf(events)
  IN /\ filecopy.filecount <= Cardinality(set(filelist))
     /\ filecopy.filesize <= filesize
     /\ \A i \in 1..Len(P) : P[i].percentComplete \in 0..100
     /\ \A i \in 1..(Len(P) - 1) : P[i].percentComplete <= P[i + 1].percentComplete

\* C21: every JobSpec is consumed by the run that its own copy_files call
\* started: once a run has ended (complete, out of space or cancelled) no
\* JobSpec is left on the socket, and the JobSpec a run works on was sent by
\* the copy_files call that started it.
C21_JobSpecConsumedByOwnRun ==
  /\ pc \in {"completed", "insufficient", "cancelled"} => socket = <<>>
  /\ (Running /\ pc # "recv") => job.id = starter

====
